---- MODULE Spec2Model ----
(***************************************************************************)
(* Model of the event page of atrium-jazz:                                 *)
(*   src/src/app/event/[slug]/page.tsx                                     *)
(* getETOffset, generateMetadata and Page (the prisma query, the JSON-LD   *)
(* start/end instants and the "More Dates" filter).                        *)
(*                                                                         *)
(* Strings are sequences of one-character strings, so that split, Number,  *)
(* toString, padStart, template literals, Date parsing and the database's  *)
(* string comparison are modelled by what they do.  Instants are minutes   *)
(* since 1970-01-01T00:00Z (the code never produces non-zero seconds).     *)
(***************************************************************************)
EXTENDS Integers, Sequences, FiniteSets, TLC

VARIABLES
    hostZone,      \* time zone of the process running the page: "ET" or "UTC"
    lenientParse,  \* whether the engine's Date parser accepts non-ISO time fields
    now,           \* the clock, Date.now(), in minutes
    pc,            \* position of the request: idle, metadata, awaiting, rendered, notFound, error
    slug,          \* params.slug of the request in progress
    dbEvents,      \* the artist's rows of the event table when the query ran
    event,         \* what prisma.event.findUnique returned (NullEvent for null)
    fetches,       \* findUnique calls made by Page for this request
    metadata,      \* what generateMetadata returned for this request
    renderedAt,    \* Date.now() read by the More Dates filter
    jsonLd,        \* the structured data handed to JsonLd
    moreDates,     \* the "More Dates" section and the list handed to ShowsList
    timeLabel,     \* the times shown in the header
    etOffset       \* last result of getETOffset

vars == <<hostZone, lenientParse, now, pc, slug, dbEvents, event, fetches,
          metadata, renderedAt, jsonLd, moreDates, timeLabel, etOffset>>

----------------------------------------------------------------------------
(* Bounds of the model *)

\* first and last calendar year of the dates explored by SpecInstants
YearFirst == 2024
YearLast == 2025
\* number of clock ticks explored by Spec
MaxTicks == 2
\* largest number of other events of the artist in the table
MaxOthers == 2

----------------------------------------------------------------------------
(* Strings: sequences of characters *)

DigitChars == <<"0", "1", "2", "3", "4", "5", "6", "7", "8", "9">>

IsDigit(c) == \E i \in 1..10 : DigitChars[i] = c

DigitVal(c) == (CHOOSE i \in 1..10 : DigitChars[i] = c) - 1

AllDigits(s) == Len(s) > 0 /\ \A i \in 1..Len(s) : IsDigit(s[i])

\* the order of the characters that occur in date strings (their ASCII order)
CharCode(c) ==
    IF c = "-" THEN 45
    ELSE IF IsDigit(c) THEN 48 + DigitVal(c)
    ELSE IF c = ":" THEN 58
    ELSE 84

\* s < t in the database's string order
RECURSIVE StrLess(_, _)
StrLess(s, t) ==
    IF Len(t) = 0 THEN FALSE
    ELSE IF Len(s) = 0 THEN TRUE
    ELSE IF CharCode(Head(s)) # CharCode(Head(t))
         THEN CharCode(Head(s)) < CharCode(Head(t))
    ELSE StrLess(Tail(s), Tail(t))

StrLeq(s, t) == s = t \/ StrLess(s, t)

\* the value of JavaScript's NaN (instants and clock fields are never negative)
NaN == -1

NaNString == <<"N", "a", "N">>

\* Number.prototype.toString of a non-negative integer or NaN
RECURSIVE NumberToString(_)
NumberToString(n) ==
    IF n = NaN THEN NaNString
    ELSE IF n < 10 THEN <<DigitChars[n + 1]>>
    ELSE NumberToString(n \div 10) \o <<DigitChars[(n % 10) + 1]>>

\* Number(s) of a string of decimal digits; NaN for anything else
RECURSIVE DigitsValue(_)
DigitsValue(s) ==
    IF Len(s) = 0 THEN 0
    ELSE DigitsValue(SubSeq(s, 1, Len(s) - 1)) * 10 + DigitVal(s[Len(s)])

ToNumber(s) == IF Len(s) = 0 THEN 0 ELSE IF AllDigits(s) THEN DigitsValue(s) ELSE NaN

\* String.prototype.padStart(width, "0")
RECURSIVE PadStart(_, _)
PadStart(s, width) == IF Len(s) >= width THEN s ELSE PadStart(<<"0">> \o s, width)

\* String.prototype.split(sep) for a one-character separator
RECURSIVE Split(_, _)
Split(s, sep) ==
    IF \A i \in 1..Len(s) : s[i] # sep THEN <<s>>
    ELSE LET k == CHOOSE i \in 1..Len(s) : s[i] = sep /\ \A j \in 1..(i - 1) : s[j] # sep
         IN  <<SubSeq(s, 1, k - 1)>> \o Split(SubSeq(s, k + 1, Len(s)), sep)

----------------------------------------------------------------------------
(* The proleptic Gregorian calendar of Date *)

IsLeap(y) == (y % 4 = 0 /\ y % 100 # 0) \/ y % 400 = 0

DaysInMonth(y, m) ==
    IF m = 2 THEN (IF IsLeap(y) THEN 29 ELSE 28)
    ELSE IF m \in {4, 6, 9, 11} THEN 30 ELSE 31

\* days from 1970-01-01 to y-m-d (y >= 1970)
DaysFromCivil(y, m, d) ==
    LET yy  == IF m <= 2 THEN y - 1 ELSE y
        era == yy \div 400
        yoe == yy - era * 400
        mp  == (m + 9) % 12
        doy == (153 * mp + 2) \div 5 + d - 1
        doe == yoe * 365 + yoe \div 4 - yoe \div 100 + doy
    IN  era * 146097 + doe - 719468

\* <<y, m, d>> of a day number
CivilFromDays(z) ==
    LET zz  == z + 719468
        era == zz \div 146097
        doe == zz - era * 146097
        yoe == (doe - doe \div 1460 + doe \div 36524 - doe \div 146096) \div 365
        doy == doe - (365 * yoe + yoe \div 4 - yoe \div 100)
        mp  == (5 * doy + 2) \div 153
        d   == doy - (153 * mp + 2) \div 5 + 1
        m   == IF mp < 10 THEN mp + 3 ELSE mp - 9
        y   == yoe + era * 400 + (IF m <= 2 THEN 1 ELSE 0)
    IN  <<y, m, d>>

\* 0 = Sunday
Weekday(days) == (days + 4) % 7

MinutesPerDay == 1440

\* "YYYY-MM-DD"
FormatDate(ymd) ==
    PadStart(NumberToString(ymd[1]), 4) \o <<"-">> \o PadStart(NumberToString(ymd[2]), 2)
        \o <<"-">> \o PadStart(NumberToString(ymd[3]), 2)

\* "HH:MM" of a minute of the day
FormatTime(m) ==
    PadStart(NumberToString(m \div 60), 2) \o <<":">> \o PadStart(NumberToString(m % 60), 2)

----------------------------------------------------------------------------
(* The host's time zone data and the Date object *)

\* US Eastern time: daylight time runs from the second Sunday of March, 2:00
\* standard time (07:00Z), to the first Sunday of November, 2:00 daylight
\* time (06:00Z)
FirstSunday(y, m) ==
    LET d0 == DaysFromCivil(y, m, 1) IN d0 + ((7 - Weekday(d0)) % 7)

DstStart(y) == (FirstSunday(y, 3) + 7) * MinutesPerDay + 7 * 60

DstEnd(y) == FirstSunday(y, 11) * MinutesPerDay + 6 * 60

\* minutes west of UTC in effect in `zone` at instant t
ZoneOffset(zone, t) ==
    IF zone = "UTC" THEN 0
    ELSE LET y == CivilFromDays(t \div MinutesPerDay)[1]
         IN  IF t >= DstStart(y) /\ t < DstEnd(y) THEN 240 ELSE 300

\* the instant of a local clock reading; a skipped or repeated reading is read
\* with the offset in effect before the transition
LocalToUTC(zone, local) ==
    IF zone = "UTC" THEN local
    ELSE IF ZoneOffset(zone, local + 240) = 240 THEN local + 240
    ELSE local + 300

\* Date.prototype.getTimezoneOffset
GetTimezoneOffset(t) == IF t = NaN THEN NaN ELSE ZoneOffset(hostZone, t)

LocalTime(t) == t - ZoneOffset(hostZone, t)

\* Date.prototype.getFullYear, getHours, getMinutes
GetFullYear(t) ==
    IF t = NaN THEN NaN ELSE CivilFromDays(LocalTime(t) \div MinutesPerDay)[1]

GetHours(t) == IF t = NaN THEN NaN ELSE (LocalTime(t) % MinutesPerDay) \div 60

GetMinutes(t) == IF t = NaN THEN NaN ELSE LocalTime(t) % 60

\* a + b of two numbers
Plus(a, b) == IF a = NaN \/ b = NaN THEN NaN ELSE a + b

\* Date.prototype.setMinutes(min): the date's local day and hour with the
\* minute replaced, carried into the hour and the day
SetMinutes(t, min) ==
    IF t = NaN \/ min = NaN THEN NaN
    ELSE LocalToUTC(hostZone, (LocalTime(t) \div 60) * 60 + min)

\* new Date(year, monthIndex, day): local midnight
DateFromFields(y, monthIndex, d) ==
    IF y = NaN THEN NaN
    ELSE LocalToUTC(hostZone, DaysFromCivil(y, monthIndex + 1, d) * MinutesPerDay)

IsDateString(s) ==
    /\ Len(s) = 10
    /\ s[5] = "-" /\ s[8] = "-"
    /\ \A i \in {1, 2, 3, 4, 6, 7, 9, 10} : IsDigit(s[i])

DateStringYMD(s) ==
    <<DigitsValue(SubSeq(s, 1, 4)), DigitsValue(SubSeq(s, 6, 7)), DigitsValue(SubSeq(s, 9, 10))>>

\* new Date(string).  "YYYY-MM-DD" is UTC midnight; "YYYY-MM-DDTHH:mm:ss" is
\* local time.  A time whose fields are not two digits each is not of the
\* ISO format: the engine may reject it (Invalid Date, as V8 does once it has
\* read the "T") or read the numbers as they stand.
DateFromString(s) ==
    IF Len(s) < 10 \/ ~IsDateString(SubSeq(s, 1, 10)) THEN NaN
    ELSE LET ymd  == DateStringYMD(SubSeq(s, 1, 10))
             days == DaysFromCivil(ymd[1], ymd[2], ymd[3])
         IN  IF ~(ymd[2] \in 1..12 /\ ymd[3] \in 1..DaysInMonth(ymd[1], ymd[2])) THEN NaN
             ELSE IF Len(s) = 10 THEN days * MinutesPerDay
             ELSE IF s[11] # "T" THEN NaN
             ELSE LET f == Split(SubSeq(s, 12, Len(s)), ":")
                  IN  IF Len(f) # 3 \/ \E i \in 1..Len(f) : ~AllDigits(f[i]) THEN NaN
                      ELSE IF ~lenientParse /\ \E i \in 1..3 : Len(f[i]) # 2 THEN NaN
                      ELSE IF DigitsValue(f[1]) > 23 \/ DigitsValue(f[2]) > 59
                              \/ DigitsValue(f[3]) > 59 THEN NaN
                      ELSE LocalToUTC(hostZone,
                               days * MinutesPerDay + DigitsValue(f[1]) * 60 + DigitsValue(f[2]))

\* "-05:00" or "-04:00" for 300 or 240 minutes west
OffsetString(off) ==
    <<"-">> \o PadStart(NumberToString(off \div 60), 2) \o <<":">>
        \o PadStart(NumberToString(off % 60), 2)

EST == <<"-", "0", "5", ":", "0", "0">>

EDT == <<"-", "0", "4", ":", "0", "0">>

\* date-fns-tz formatInTimeZone(date, 'America/New_York', "yyyy-MM-dd'T'HH:mm:ssXXX")
formatInTimeZone(t) ==
    LET off   == ZoneOffset("ET", t)
        local == t - off
    IN  FormatDate(CivilFromDays(local \div MinutesPerDay)) \o <<"T">>
            \o FormatTime(local % MinutesPerDay) \o <<":", "0", "0">> \o OffsetString(off)

----------------------------------------------------------------------------
(* page.tsx: getETOffset and the start/end instants of the structured data *)

getETOffset_gt(date) ==
    LET dateObj == DateFromString(date)
        isDST   == GetTimezoneOffset(dateObj)
                     > GetTimezoneOffset(DateFromFields(GetFullYear(dateObj), 0, 1))
    IN  IF isDST THEN EDT ELSE EST

getETOffset(date) ==
    LET dateObj == DateFromString(date)
        isDST   == GetTimezoneOffset(dateObj)
                     < GetTimezoneOffset(DateFromFields(GetFullYear(dateObj), 0, 1))
    IN  IF isDST THEN EDT ELSE EST

HasSetTimes(ev) == "setTimes" \in DOMAIN ev /\ Len(ev.setTimes) > 0

startDate_utcMidnight(ev) ==
    IF HasSetTimes(ev)
    THEN ev.dateString \o <<"T">> \o ev.setTimes[1] \o <<":", "0", "0">>
             \o getETOffset(ev.dateString)
    ELSE formatInTimeZone(DateFromString(ev.dateString))

\* "startDate" of the JSON-LD
startDate(ev) ==
    IF HasSetTimes(ev)
    THEN ev.dateString \o <<"T">> \o ev.setTimes[1] \o <<":", "0", "0">>
             \o getETOffset(ev.dateString)
    ELSE formatInTimeZone(
             DateFromString(ev.dateString \o <<"T", "0", "0", ":", "0", "0", ":", "0", "0">>))

\* "endDate" of the JSON-LD, for an event with set-times
endDate(ev) ==
    LET parts   == Split(ev.setTimes[Len(ev.setTimes)], ":")
        hours   == ToNumber(parts[1])
        minutes == ToNumber(parts[2])
        parsed  == DateFromString(ev.dateString \o <<"T">> \o NumberToString(hours)
                       \o <<":">> \o NumberToString(minutes) \o <<":", "0", "0">>)
        endTime == SetMinutes(parsed, Plus(GetMinutes(parsed), 90))
    IN  ev.dateString \o <<"T">> \o PadStart(NumberToString(GetHours(endTime)), 2)
            \o <<":">> \o PadStart(NumberToString(GetMinutes(endTime)), 2)
            \o <<":", "0", "0">> \o getETOffset(ev.dateString)

----------------------------------------------------------------------------
(* The records the data layer returns *)

\* null, and a value not yet computed
Null == [null |-> TRUE]

\* an object without keys
EmptyObject == <<>>

\* EVENT_CONFIG.DAYS_AHEAD of @/config/constants: the look-ahead horizon
DAYS_AHEAD == 30

Slugs == {"a", "b", "c", "d"}

\* the slugs pages are requested for
RequestSlugs == {"a", "b"}

\* The clock of Spec starts at 2025-02-27T00:00Z and advances half a day a tick
ClockDay0 == DaysFromCivil(2025, 2, 27)

TickMinutes == 12 * 60

DateOfDay(day) == FormatDate(CivilFromDays(day))

\* dates of the event a page is requested for: today, and 2025-03-09, the day
\* daylight time starts
PageDates == {DateOfDay(ClockDay0), DateOfDay(ClockDay0 + 10)}

\* dates of the artist's other events, in days from the clock's first day
OtherDayOffsets == {0, 10, DAYS_AHEAD, DAYS_AHEAD + 1}

OtherDates == {DateOfDay(ClockDay0 + k) : k \in OtherDayOffsets}

\* "HH:MM"
SetTime(h, m) == FormatTime(h * 60 + m)

\* set-time lists of the events of Spec
PageSetTimes ==
    {<<>>, <<SetTime(20, 0), SetTime(21, 30)>>, <<SetTime(23, 15)>>, <<SetTime(9, 5)>>}

\* set-time lists of the events of SpecInstants
CalendarSetTimes ==
    PageSetTimes \cup
    {<<SetTime(21, 0)>>, <<SetTime(19, 30), SetTime(22, 30)>>, <<SetTime(23, 0)>>,
     <<SetTime(0, 30)>>, <<SetTime(1, 30)>>, <<SetTime(12, 45)>>}

\* the optional columns of an event row: logline and setTimes may be absent
OptionalFields(setTimeLists) ==
    {l @@ t : l \in {EmptyObject, [logline |-> "text"]},
              t \in {EmptyObject} \cup {[setTimes |-> st] : st \in setTimeLists}}

\* rows of the event table with slug s (without the artist relation)
EventRows(s, dates, setTimeLists) ==
    {[slug |-> s, dateString |-> d] @@ o : d \in dates, o \in OptionalFields(setTimeLists)}

\* the rows an artist can have besides the event's own: at most MaxOthers,
\* with slugs of their own
OtherRowSets(s) ==
    {rows \in SUBSET {[slug |-> o, dateString |-> d] : o \in Slugs \ {s}, d \in OtherDates} :
        /\ Cardinality(rows) <= MaxOthers
        /\ \A r1, r2 \in rows : r1.slug = r2.slug => r1 = r2}

----------------------------------------------------------------------------
(* page.tsx: the query of Page *)

\* Date.prototype.toISOString: "YYYY-MM-DDTHH:mm:00.000Z"
ToISOString(t) ==
    FormatDate(CivilFromDays(t \div MinutesPerDay)) \o <<"T">>
        \o FormatTime(t % MinutesPerDay) \o <<":", "0", "0", ".", "0", "0", "0", "Z">>

\* new Date(t).toISOString().split('T')[0]
ISODate(t) == Split(ToISOString(t), "T")[1]

EventsWhere_noSlug(row, s, t) ==
    /\ StrLeq(ISODate(t), row.dateString)
    /\ StrLess(row.dateString, ISODate(t + DAYS_AHEAD * MinutesPerDay))

\* the where-clause of artist.events
EventsWhere(row, s, t) ==
    /\ StrLeq(ISODate(t), row.dateString)
    /\ StrLess(row.dateString, ISODate(t + DAYS_AHEAD * MinutesPerDay))
    /\ ~(row.slug = s)

IsOrdering(q, rows) ==
    /\ \A i, j \in 1..Len(q) : q[i] = q[j] => i = j
    /\ {q[i] : i \in 1..Len(q)} = rows

OrderByDateString_desc(rows) ==
    {q \in [1..Cardinality(rows) -> rows] :
        /\ IsOrdering(q, rows)
        /\ \A i, j \in 1..Len(q) : i < j => StrLeq(q[j].dateString, q[i].dateString)}

\* orderBy dateString asc: the orders the database may return the rows in
OrderByDateString(rows) ==
    {q \in [1..Cardinality(rows) -> rows] :
        /\ IsOrdering(q, rows)
        /\ \A i, j \in 1..Len(q) : i < j => StrLeq(q[i].dateString, q[j].dateString)}

\* the results findUnique may give for the artist relation's events
ArtistEvents(rows, s, t) == OrderByDateString({r \in rows : EventsWhere(r, s, t)})

----------------------------------------------------------------------------
(* page.tsx: what Page renders *)

\* "description" of the JSON-LD (and of the metadata)
Description(ev) ==
    IF "logline" \in DOMAIN ev THEN "logline"
    ELSE IF ev.artist # Null THEN "Join the artist" ELSE "Join us"

JsonLdOf(ev) ==
    [description |-> Description(ev), startDate |-> startDate(ev)]
        @@ (IF HasSetTimes(ev) THEN [endDate |-> endDate(ev)] ELSE EmptyObject)
        @@ (IF ev.artist # Null THEN [performer |-> ev.artist.name] ELSE EmptyObject)

\* the header's times, or "Time TBA"
TimeLabelOf(ev) == IF HasSetTimes(ev) THEN ev.setTimes ELSE <<"Time TBA">>

MoreDatesFilter_reversed(events, t) ==
    LET kept == SelectSeq(events,
                    LAMBDA e : DateFromString(e.dateString) <= t + DAYS_AHEAD * MinutesPerDay)
    IN  [i \in 1..Len(kept) |-> kept[Len(kept) + 1 - i]]

\* the filter of the list handed to ShowsList
MoreDatesFilter(events, t) ==
    SelectSeq(events,
        LAMBDA e : LET eventDate  == DateFromString(e.dateString)
                       cutoffDate == t + DAYS_AHEAD * MinutesPerDay
                   IN  eventDate # NaN /\ eventDate <= cutoffDate)

\* the "More Dates" section
MoreDatesOf(ev, t) ==
    IF ev.artist # Null /\ Len(ev.artist.events) > 0
    THEN [shown |-> TRUE, events |-> MoreDatesFilter(ev.artist.events, t)]
    ELSE [shown |-> FALSE]

\* `if (!event) notFound()`
Outcome_noGuard(ev) == "rendered"

Outcome(ev) == IF ev = Null THEN "notFound" ELSE "rendered"

----------------------------------------------------------------------------
(* The requests *)

Clock0 == ClockDay0 * MinutesPerDay

\* what findUnique may return for slug s at instant t: null, or the row with
\* its artist relation (null, or the artist with the queried events); `rows`
\* are the artist's rows of the table, the event's own among them
FindUnique(s, t) ==
    {[result |-> Null, rows |-> {}]}
    \cup {[result |-> row @@ [artist |-> Null], rows |-> {}] :
            row \in EventRows(s, PageDates, PageSetTimes)}
    \cup UNION {UNION {{[result |-> row @@ [artist |-> [name |-> "artist", events |-> q]],
                         rows   |-> others \cup {[slug |-> s, dateString |-> row.dateString]}] :
                           q \in ArtistEvents(
                                   others \cup {[slug |-> s, dateString |-> row.dateString]}, s, t)} :
                        others \in OtherRowSets(s)} :
                  row \in EventRows(s, PageDates, PageSetTimes)}

Request ==
    /\ hostZone \in {"ET", "UTC"}
    /\ lenientParse \in BOOLEAN
    /\ slug = ""
    /\ dbEvents = {}
    /\ event = Null
    /\ fetches = 0
    /\ metadata = Null
    /\ renderedAt = 0
    /\ jsonLd = Null
    /\ moreDates = [shown |-> FALSE]
    /\ timeLabel = <<>>
    /\ etOffset = <<>>

Init ==
    /\ Request
    /\ now = Clock0
    /\ pc = "idle"

\* time passes
Tick ==
    /\ now < Clock0 + MaxTicks * TickMinutes
    /\ now' = now + TickMinutes
    /\ UNCHANGED <<hostZone, lenientParse, pc, slug, dbEvents, event, fetches, metadata,
                   renderedAt, jsonLd, moreDates, timeLabel, etOffset>>

\* generateMetadata: one findUnique, {} when there is no such event
GenerateMetadata(s) ==
    /\ pc = "idle"
    /\ \E found \in {Null} \cup {row @@ [artist |-> a] :
                                   row \in EventRows(s, PageDates, {<<>>}),
                                   a \in {Null, [name |-> "artist"]}} :
          metadata' = IF found = Null THEN [value |-> EmptyObject]
                      ELSE [value |-> [title |-> found.slug, description |-> Description(found)]]
    /\ slug' = s
    /\ pc' = "metadata"
    /\ UNCHANGED <<hostZone, lenientParse, now, dbEvents, event, fetches, renderedAt,
                   jsonLd, moreDates, timeLabel, etOffset>>

\* Page, up to the await of findUnique: the query is built with the clock's
\* reading and sent once
PageQuery(s) ==
    /\ pc = "idle"
    /\ \E found \in FindUnique(s, now) :
          /\ event' = found.result
          /\ dbEvents' = found.rows
    /\ slug' = s
    /\ fetches' = fetches + 1
    /\ pc' = "awaiting"
    /\ UNCHANGED <<hostZone, lenientParse, now, metadata, renderedAt, jsonLd, moreDates,
                   timeLabel, etOffset>>

\* Page, after the await: notFound() for null, else the structured data, the
\* header and the More Dates section.  Reading a field of null throws.
PageRender ==
    /\ pc = "awaiting"
    /\ IF Outcome(event) = "notFound"
       THEN /\ pc' = "notFound"
            /\ UNCHANGED <<renderedAt, jsonLd, moreDates, timeLabel, etOffset>>
       ELSE IF event = Null
       THEN /\ pc' = "error"
            /\ UNCHANGED <<renderedAt, jsonLd, moreDates, timeLabel, etOffset>>
       ELSE /\ pc' = "rendered"
            /\ jsonLd' = JsonLdOf(event)
            /\ timeLabel' = TimeLabelOf(event)
            /\ renderedAt' = now
            /\ moreDates' = MoreDatesOf(event, now)
            /\ etOffset' = IF HasSetTimes(event) THEN getETOffset(event.dateString) ELSE etOffset
    /\ UNCHANGED <<hostZone, lenientParse, now, slug, dbEvents, event, fetches, metadata>>

\* the response is sent; the next request starts from nothing
Respond ==
    /\ pc \in {"metadata", "rendered", "notFound", "error"}
    /\ pc' = "idle"
    /\ slug' = ""
    /\ dbEvents' = {}
    /\ event' = Null
    /\ fetches' = 0
    /\ metadata' = Null
    /\ renderedAt' = 0
    /\ jsonLd' = Null
    /\ moreDates' = [shown |-> FALSE]
    /\ timeLabel' = <<>>
    /\ etOffset' = <<>>
    /\ UNCHANGED <<hostZone, lenientParse, now>>

Next ==
    \/ Tick
    \/ \E s \in RequestSlugs : GenerateMetadata(s)
    \/ \E s \in RequestSlugs : PageQuery(s)
    \/ PageRender
    \/ Respond

Spec == Init /\ [][Next]_vars

----------------------------------------------------------------------------
(* The instants of the structured data, over the calendar *)

CalendarDates ==
    {FormatDate(ymd) : ymd \in {x \in (YearFirst..YearLast) \X (1..12) \X (1..31) :
                                   x[3] <= DaysInMonth(x[1], x[2])}}

\* Page awaiting with an event of any date of the calendar, with or without
\* set-times, and no artist
InitInstants ==
    /\ hostZone \in {"ET", "UTC"}
    /\ lenientParse \in BOOLEAN
    /\ now = Clock0
    /\ pc = "awaiting"
    /\ slug = "a"
    /\ dbEvents = {}
    /\ event \in {[slug |-> "a", dateString |-> d, artist |-> Null] @@ t :
                    d \in CalendarDates,
                    t \in {EmptyObject} \cup {[setTimes |-> st] : st \in CalendarSetTimes}}
    /\ fetches = 1
    /\ metadata = Null
    /\ renderedAt = 0
    /\ jsonLd = Null
    /\ moreDates = [shown |-> FALSE]
    /\ timeLabel = <<>>
    /\ etOffset = <<>>

NextInstants == PageRender

SpecInstants == InitInstants /\ [][NextInstants]_vars

----------------------------------------------------------------------------
(* Properties *)

Rendered == pc = "rendered"

\* the instant a "YYYY-MM-DD" date stands for: its UTC midnight
DateInstant(d) ==
    LET ymd == DateStringYMD(d) IN DaysFromCivil(ymd[1], ymd[2], ymd[3]) * MinutesPerDay

\* the end of the look-ahead window of a rendering
WindowEnd == renderedAt + DAYS_AHEAD * MinutesPerDay

Listed(row) ==
    moreDates.shown /\ \E i \in 1..Len(moreDates.events) : moreDates.events[i] = row

\* C1: the list handed to ShowsList never holds an event with the slug of the
\* page, and holds only events dated within DAYS_AHEAD days of the rendering.
C1_MoreDatesInWindowWithoutSelf ==
    (Rendered /\ moreDates.shown) =>
        \A i \in 1..Len(moreDates.events) :
            /\ moreDates.events[i].slug # slug
            /\ DateInstant(moreDates.events[i].dateString) <= WindowEnd

\* a rendering that lists something although the page's own event is in the
\* window and another event of the artist lies beyond it
C1_Witness ==
    /\ Rendered /\ moreDates.shown /\ Len(moreDates.events) >= 1
    /\ \E r \in dbEvents : r.slug = slug /\ DateInstant(r.dateString) <= WindowEnd
                            /\ StrLeq(ISODate(renderedAt), r.dateString)
    /\ \E r \in dbEvents : r.slug # slug /\ DateInstant(r.dateString) > WindowEnd

\* C2: the list is exactly the artist's (upcoming) events dated at or before
\* now + DAYS_AHEAD days, other than the page's own: each of them is listed,
\* one dated exactly DAYS_AHEAD days ahead included, and nothing else is.
C2_ListIsExactlyTheWindow ==
    Rendered =>
        \A r \in dbEvents :
            StrLeq(ISODate(renderedAt), r.dateString) =>
                (Listed(r) <=> (DateInstant(r.dateString) <= WindowEnd /\ r.slug # slug))

Position(q, e) == CHOOSE k \in 1..Len(q) : q[k] = e

\* C3: the list handed to ShowsList is in ascending date order, and any two
\* events in it stand in the order the query returned them in (so events of
\* equal dates keep their order).
C3_AscendingAndOrderKept ==
    (Rendered /\ moreDates.shown) =>
        \A i, j \in 1..Len(moreDates.events) :
            i < j =>
                /\ DateInstant(moreDates.events[i].dateString)
                     <= DateInstant(moreDates.events[j].dateString)
                /\ Position(event.artist.events, moreDates.events[i])
                     < Position(event.artist.events, moreDates.events[j])

\* two events of the same date are both listed
C3_Witness ==
    /\ Rendered /\ moreDates.shown /\ Len(moreDates.events) >= 2
    /\ moreDates.events[1].dateString = moreDates.events[2].dateString
    /\ moreDates.events[1].slug # moreDates.events[2].slug

Month(d) == DateStringYMD(d)[2]

\* C4: on a host in US Eastern time, getETOffset gives "-05:00" for every date
\* of December, January and February and "-04:00" for every date of June,
\* July and August.
C4_WinterStandardSummerDaylight ==
    (Rendered /\ hostZone = "ET" /\ HasSetTimes(event)) =>
        /\ Month(event.dateString) \in {12, 1, 2} => etOffset = EST
        /\ Month(event.dateString) \in {6, 7, 8} => etOffset = EDT

\* getETOffset answered daylight time for a date of July on an Eastern host
C4_Witness ==
    /\ Rendered /\ hostZone = "ET" /\ HasSetTimes(event)
    /\ Month(event.dateString) = 7
    /\ etOffset = EDT

\* whether s reads YYYY-MM-DDTHH:MM:SS followed by +HH:MM or -HH:MM
IsISODateTime(s) ==
    /\ Len(s) = 25
    /\ IsDateString(SubSeq(s, 1, 10))
    /\ s[11] = "T" /\ s[14] = ":" /\ s[17] = ":" /\ s[20] \in {"+", "-"} /\ s[23] = ":"
    /\ \A i \in {12, 13, 15, 16, 18, 19, 21, 22, 24, 25} : IsDigit(s[i])
    /\ DigitsValue(SubSeq(s, 12, 13)) <= 23
    /\ DigitsValue(SubSeq(s, 15, 16)) <= 59
    /\ DigitsValue(SubSeq(s, 18, 19)) <= 59

\* minute of the day of "HH:MM"
MinuteOfDay(hhmm) == DigitsValue(SubSeq(hhmm, 1, 2)) * 60 + DigitsValue(SubSeq(hhmm, 4, 5))

\* minutes west of UTC of "-HH:MM"
OffsetMinutes(o) == MinuteOfDay(SubSeq(o, 2, 6))

\* the instant an ISO date-time with a negative offset denotes
InstantOf(s) ==
    DateInstant(SubSeq(s, 1, 10)) + MinuteOfDay(SubSeq(s, 12, 16)) + OffsetMinutes(SubSeq(s, 20, 25))

LastSetTime == event.setTimes[Len(event.setTimes)]

\* C5: the end instant of an event with set-times (where it reads as a
\* date-time at all, which is C8's matter) is the moment 90 minutes after the
\* event's date at its last set-time, in the offset of the start instant.
C5_EndIsNinetyMinutesAfterLastSet ==
    (Rendered /\ HasSetTimes(event) /\ IsISODateTime(jsonLd.endDate)) =>
          InstantOf(jsonLd.endDate)
             = InstantOf(event.dateString \o <<"T">> \o LastSetTime \o <<":", "0", "0">>
                           \o SubSeq(jsonLd.startDate, 20, 25)) + 90

\* C6: when the last set-time plus 90 minutes passes midnight, the end instant
\* reads the event's own date, the time of day (last set-time + 90 minutes)
\* modulo 24 hours, and the offset.
C6_EndWrapsOnTheSameDate ==
    (Rendered /\ HasSetTimes(event) /\ MinuteOfDay(LastSetTime) + 90 >= MinutesPerDay) =>
        jsonLd.endDate = event.dateString \o <<"T">>
                           \o FormatTime((MinuteOfDay(LastSetTime) + 90) % MinutesPerDay)
                           \o <<":", "0", "0">> \o SubSeq(jsonLd.startDate, 20, 25)

\* the offset in effect in US Eastern time at a minute of the day of a date
EasternOffsetAtLocal(d, minute) ==
    OffsetString(ZoneOffset("ET", LocalToUTC("ET", DateInstant(d) + minute)))

Midnight == <<"T", "0", "0", ":", "0", "0", ":", "0", "0">>

\* C7 as amended: on a host in US Eastern time, an event without set-times
\* has as its start instant 00:00:00 of its own date with the Eastern offset
\* of that moment, and no end instant.
C7_MidnightEasternOnEasternHost ==
    (Rendered /\ hostZone = "ET" /\ ~HasSetTimes(event)) =>
        /\ jsonLd.startDate
             = event.dateString \o Midnight \o EasternOffsetAtLocal(event.dateString, 0)
        /\ "endDate" \notin DOMAIN jsonLd

\* C7 as claimed: the same on any host.
C7_MidnightEasternOnAnyHost ==
    (Rendered /\ ~HasSetTimes(event)) =>
        /\ jsonLd.startDate
             = event.dateString \o Midnight \o EasternOffsetAtLocal(event.dateString, 0)
        /\ "endDate" \notin DOMAIN jsonLd

\* an event of July without set-times rendered on an Eastern host
C7_Witness ==
    /\ Rendered /\ hostZone = "ET" /\ ~HasSetTimes(event)
    /\ Month(event.dateString) = 7
    /\ SubSeq(jsonLd.startDate, 20, 25) = EDT

\* C8: every start and end instant is YYYY-MM-DDTHH:MM:SS with an explicit
\* offset, the hour and the minute of two digits each.
C8_InstantsAreISO ==
    Rendered =>
        /\ IsISODateTime(jsonLd.startDate)
        /\ "endDate" \in DOMAIN jsonLd => IsISODateTime(jsonLd.endDate)

\* C9: a request whose fetch returned null ends in "not found" after that one
\* fetch, with no structured data, header or event list; a request whose
\* record lacks the logline, the set-times or the artist renders without an
\* error and leaves out what depends on the missing field.
C9_NotFoundOrRenderedWithoutError ==
    /\ pc # "error"
    /\ pc \in {"awaiting", "notFound", "rendered"} => fetches = 1
    /\ (event = Null /\ pc \notin {"idle", "metadata", "awaiting"}) =>
           /\ pc = "notFound"
           /\ jsonLd = Null /\ ~moreDates.shown /\ timeLabel = <<>>
    /\ Rendered =>
           /\ event # Null
           /\ "logline" \notin DOMAIN event => jsonLd.description # "logline"
           /\ ~HasSetTimes(event) =>
                  "endDate" \notin DOMAIN jsonLd /\ timeLabel = <<"Time TBA">>
           /\ event.artist = Null => "performer" \notin DOMAIN jsonLd /\ ~moreDates.shown

\* a request for a slug without a record has ended in "not found"
C9_Witness == pc = "notFound" /\ event = Null /\ fetches = 1

\* C10: on a host in US Eastern time, the offset of the start instant, and of
\* the end instant, is the offset in effect in US Eastern time at the date
\* and time of day the instant reads.
C10_OffsetIsTheOneInEffect ==
    (Rendered /\ hostZone = "ET" /\ HasSetTimes(event)) =>
        /\ SubSeq(jsonLd.startDate, 20, 25)
             = EasternOffsetAtLocal(event.dateString, MinuteOfDay(event.setTimes[1]))
        /\ IsISODateTime(jsonLd.endDate) =>
               SubSeq(jsonLd.endDate, 20, 25)
                 = EasternOffsetAtLocal(event.dateString,
                                        MinuteOfDay(SubSeq(jsonLd.endDate, 12, 16)))

====
